---- MODULE Spec2Model ----
(***************************************************************************)
(* Silent WAV cleaner (src/cleanup.py): the sample planner                 *)
(* compute_sample_positions, the classifier scan_wav_for_silence and the   *)
(* scan loop of main.                                                      *)
(*                                                                         *)
(* Amplitudes are finite non-negative numbers, counted in units of the     *)
(* silence threshold's scale, so that a peak below, equal to and above the *)
(* threshold are all representable.  A duration is the exact quotient      *)
(* total_frames / sr, kept as the pair (num, den).                         *)
(* The file system, the stat call and the audio reader are the             *)
(* environment: each call either raises or returns a value drawn from a    *)
(* bounded set.                                                            *)
(***************************************************************************)
EXTENDS Integers, Sequences, FiniteSets

\* ---------------------------------------------------------------- bounds
MaxFiles == 2
MaxSize == 2
MaxFrames == 4
MaxSamples == 3
MaxPeak == 2
MaxPlanFrames == 7
MaxPlanSamples == 5

\* SILENCE_THRESHOLD (one unit of the amplitude scale).
SILENCE_THRESHOLD == 1

PlanRates == -1 .. 2
PlanFrames == -1 .. MaxPlanFrames
PlanIntervals == -1 .. 2
PlanCounts == 0 .. MaxPlanSamples

VARIABLES
    MODE, MIN_SIZE_BYTES, INTERVAL_SECONDS, NUM_SAMPLES_PER_FILE,
    pc, wav, scanned, silent_candidates, deleted_count, error_count,
    bytes_candidate_savings, bytes_deleted_savings, report_rows,
    size_bytes, sr, ch, total_frames, starts, frames_per_interval, pos,
    max_abs_seen, res,
    fs, io, decisions, delete_failures, scope

config == <<MODE, MIN_SIZE_BYTES, INTERVAL_SECONDS, NUM_SAMPLES_PER_FILE,
            scope>>
summary == <<scanned, silent_candidates, deleted_count, error_count,
             bytes_candidate_savings, bytes_deleted_savings, report_rows>>
locals == <<size_bytes, sr, ch, total_frames, starts, frames_per_interval,
            pos, max_abs_seen>>
world == <<fs, decisions, delete_failures>>
vars == <<config, pc, wav, summary, locals, res, world, io>>

\* What the environment may return.  A whole run ("run") draws each file's
\* size, metadata and peaks from the smallest sets that still reach every
\* branch of the classifier; the classification of one file taken alone
\* ("file") and the planner taken alone ("plan") draw them from the bounded
\* ranges.
Modes == {"AUDIT", "DELETE"}
Gates == 0 .. 1
Sizes == IF scope = "run" THEN 0 .. 1 ELSE 0 .. MaxSize
SampleRates == IF scope = "run" THEN 0 .. 1 ELSE -1 .. 2
Channels == IF scope = "run" THEN {1} ELSE 1 .. 2
Frames == IF scope = "run" THEN 0 .. 3 ELSE 0 .. MaxFrames
Intervals == 0 .. 1
SampleCounts == IF scope = "run" THEN {3} ELSE 0 .. MaxSamples
Peaks == IF scope = "run" THEN 0 .. SILENCE_THRESHOLD + 1 ELSE 0 .. MaxPeak

\* The enumerated files: paths are 1 .. MaxFiles, in enumeration order.
wav_files == [n \in 1 .. MaxFiles |-> n]

\* ------------------------------------------------------------ ScanResult
ZeroDuration == [num |-> 0, den |-> 1]

Duration(frames, rate) ==
    IF rate > 0 THEN [num |-> frames, den |-> rate] ELSE ZeroDuration

ScanResult(path, decision, detail, size, duration, rate, channels, used, maxabs) ==
    [path |-> path, decision |-> decision, detail |-> detail,
     size_bytes |-> size, duration_sec |-> duration, samplerate |-> rate,
     channels |-> channels, interval_seconds |-> INTERVAL_SECONDS,
     num_samples_used |-> used, threshold |-> SILENCE_THRESHOLD,
     max_abs_seen |-> maxabs]

NoResult == [decision |-> "NONE"]

\* ------------------------------------------------ compute_sample_positions
Max(a, b) == IF a >= b THEN a ELSE b

RECURSIVE SortSet(_)
SortSet(S) ==
    IF S = {} THEN <<>>
    ELSE LET m == CHOOSE x \in S : \A y \in S : x <= y
         IN <<m>> \o SortSet(S \ {m})

Range(s) == {s[n] : n \in 1 .. Len(s)}

\* np.linspace(0, stop, num=num, dtype=int64), num >= 1: num evenly spaced
\* values from 0 to stop inclusive, each floored to an integer; the last one
\* is stop itself, and a single value is the start.  numpy computes
\* floor(i * (stop / (num - 1))) in double precision; for every stop and num
\* within the bounds used here that equals the exact floor below (the first
\* difference, one less than the exact floor, is at stop = 30, num = 23).
Linspace(stop, num) ==
    [n \in 1 .. num |->
        IF num = 1 THEN 0
        ELSE IF n = num THEN stop
        ELSE ((n - 1) * stop) \div (num - 1)]

\* np.unique: the distinct values, sorted ascending.
Unique_keep(s) == s

Unique(s) == SortSet(Range(s))

Degenerate_never(total, rate, fpi) == FALSE

Degenerate(total, rate, fpi) == rate <= 0 \/ total <= 0 \/ fpi <= 0

MaxStart(total, fpi) == total - fpi

\* Returns <<starts, frames_per_interval>>.
compute_sample_positions(total, rate, interval_seconds, num_samples) ==
    LET fpi == rate * interval_seconds
    IN  IF Degenerate(total, rate, fpi) THEN <<<<>>, fpi>>
        ELSE IF total <= fpi THEN <<<<0>>, fpi>>
        ELSE <<Unique(Linspace(MaxStart(total, fpi), Max(1, num_samples))), fpi>>

\* ------------------------------------------------------ scan_wav_for_silence
\* The outcome of the except branch: every metadata field zeroed.
ErrorResult_keepsize(path) ==
    ScanResult(path, "ERROR", "Exception", size_bytes, ZeroDuration, 0, 0, 0, 0)

ErrorResult(path) ==
    ScanResult(path, "ERROR", "Exception", 0, ZeroDuration, 0, 0, 0, 0)

BelowGate_inclusive(size) == size <= MIN_SIZE_BYTES

BelowGate(size) == size < MIN_SIZE_BYTES

Exceeds_inclusive(peak) == peak >= SILENCE_THRESHOLD

Exceeds_never(peak) == FALSE

Exceeds(peak) == peak > SILENCE_THRESHOLD

RunningMax_stale(seen, peak) == seen

RunningMax(seen, peak) == Max(seen, peak)

\* One call on the file system or the audio reader, as instrumentation of
\* those collaborators would log it; ok is FALSE when the call raised.
IoEvent(op, start, ok, empty, peak) ==
    [op |-> op, start |-> start, ok |-> ok, empty |-> empty, peak |-> peak]

StatEvent(ok) == IoEvent("stat", 0, ok, FALSE, 0)

OpenEvent(ok) == IoEvent("open", 0, ok, FALSE, 0)

MetaEvent(ok) == IoEvent("meta", 0, ok, FALSE, 0)

SeekEvent(start, ok) == IoEvent("seek", start, ok, FALSE, 0)

ReadFailure(start) == IoEvent("read", start, FALSE, FALSE, 0)

EmptyRead(start) == IoEvent("read", start, TRUE, TRUE, 0)

DataRead(start, peak) == IoEvent("read", start, TRUE, FALSE, peak)

ResetLocals ==
    /\ size_bytes' = 0
    /\ sr' = 0
    /\ ch' = 0
    /\ total_frames' = 0
    /\ starts' = <<>>
    /\ frames_per_interval' = 0
    /\ pos' = 0
    /\ max_abs_seen' = 0

\* The classifier returns r to main.
Return(r) ==
    /\ res' = r
    /\ decisions' = [decisions EXCEPT ![wav] = r.decision]
    /\ pc' = "handle"

\* wav_path.stat() raises.
StatFails ==
    /\ pc = "stat"
    /\ io' = Append(io, StatEvent(FALSE))
    /\ Return(ErrorResult(wav))
    /\ UNCHANGED <<config, wav, summary, locals, fs, delete_failures>>

\* wav_path.stat() succeeds: the size gate, or on to the open.
Stat ==
    /\ pc = "stat"
    /\ \E size \in Sizes :
        /\ size_bytes' = size
        /\ io' = Append(io, StatEvent(TRUE))
        /\ IF BelowGate(size)
           THEN Return(ScanResult(wav, "KEEP", "BelowMinSize", size,
                                  ZeroDuration, 0, 0, 0, 0))
           ELSE /\ pc' = "open"
                /\ UNCHANGED <<res, decisions>>
    /\ UNCHANGED <<config, wav, summary, sr, ch, total_frames, starts,
                   frames_per_interval, pos, max_abs_seen, fs,
                   delete_failures>>

\* sf.SoundFile(wav_path) raises.
OpenFails ==
    /\ pc = "open"
    /\ io' = Append(io, OpenEvent(FALSE))
    /\ Return(ErrorResult(wav))
    /\ UNCHANGED <<config, wav, summary, locals, fs, delete_failures>>

\* The file is open and reading its metadata raises.
MetadataFails ==
    /\ pc = "open"
    /\ io' = io \o <<OpenEvent(TRUE), MetaEvent(FALSE)>>
    /\ Return(ErrorResult(wav))
    /\ UNCHANGED <<config, wav, summary, locals, fs, delete_failures>>

\* The file opens, its metadata is read and the sample plan is computed.
Open ==
    /\ pc = "open"
    /\ \E rate \in SampleRates, channels \in Channels, total \in Frames :
        LET plan == compute_sample_positions(total, rate, INTERVAL_SECONDS,
                                             NUM_SAMPLES_PER_FILE)
        IN  /\ sr' = rate
            /\ ch' = channels
            /\ total_frames' = total
            /\ starts' = plan[1]
            /\ frames_per_interval' = plan[2]
            /\ io' = io \o <<OpenEvent(TRUE), MetaEvent(TRUE)>>
            /\ max_abs_seen' = 0
            /\ IF Len(plan[1]) = 0
               THEN /\ Return(ScanResult(wav, "ERROR", "NoSamplePositions",
                                size_bytes, Duration(total, rate), rate,
                                channels, 0, 0))
                    /\ pos' = 0
               ELSE /\ pc' = "scan"
                    /\ pos' = 1
                    /\ UNCHANGED <<res, decisions>>
    /\ UNCHANGED <<config, wav, summary, size_bytes, fs, delete_failures>>

\* f.seek(start) raises.
SeekFails ==
    /\ pc = "scan"
    /\ pos <= Len(starts)
    /\ io' = Append(io, SeekEvent(starts[pos], FALSE))
    /\ Return(ErrorResult(wav))
    /\ UNCHANGED <<config, wav, summary, locals, fs, delete_failures>>

\* f.seek(start) succeeds and f.read raises.
ReadFails ==
    /\ pc = "scan"
    /\ pos <= Len(starts)
    /\ io' = io \o <<SeekEvent(starts[pos], TRUE), ReadFailure(starts[pos])>>
    /\ Return(ErrorResult(wav))
    /\ UNCHANGED <<config, wav, summary, locals, fs, delete_failures>>

\* One iteration of the loop whose read returns no data: continue.
ReadEmpty ==
    /\ pc = "scan"
    /\ pos <= Len(starts)
    /\ io' = io \o <<SeekEvent(starts[pos], TRUE), EmptyRead(starts[pos])>>
    /\ pos' = pos + 1
    /\ UNCHANGED <<config, pc, wav, summary, size_bytes, sr, ch, total_frames,
                   starts, frames_per_interval, max_abs_seen, res, world>>

\* One iteration of the loop whose read returns data with the given peak.
ReadChunk ==
    /\ pc = "scan"
    /\ pos <= Len(starts)
    /\ \E peak \in Peaks :
        LET seen == RunningMax(max_abs_seen, peak)
        IN  /\ io' = io \o <<SeekEvent(starts[pos], TRUE),
                              DataRead(starts[pos], peak)>>
            /\ max_abs_seen' = seen
            /\ IF Exceeds(peak)
               THEN /\ Return(ScanResult(wav, "KEEP", "NonSilentChunk",
                                size_bytes, Duration(total_frames, sr), sr, ch,
                                Len(starts), seen))
                    /\ pos' = pos
               ELSE /\ pos' = pos + 1
                    /\ UNCHANGED <<pc, res, decisions>>
    /\ UNCHANGED <<config, wav, summary, size_bytes, sr, ch, total_frames,
                   starts, frames_per_interval, fs, delete_failures>>

\* The loop ended without an early exit.
AllBelow ==
    /\ pc = "scan"
    /\ pos > Len(starts)
    /\ Return(ScanResult(wav, "SILENT", "AllBelow", size_bytes,
                         Duration(total_frames, sr), sr, ch, Len(starts),
                         max_abs_seen))
    /\ UNCHANGED <<config, wav, summary, locals, fs, delete_failures, io>>

\* ----------------------------------------------------------------- main
ShouldDelete_always == TRUE

ShouldDelete == MODE = "DELETE"

IsError_else(r) == r.decision # "SILENT"

IsError(r) == r.decision = "ERROR"

\* The synthetic row main appends when os.remove raises.
DeleteFailedRow_zeroed(r) ==
    ScanResult(r.path, "ERROR", "DeleteFailed", 0, ZeroDuration, 0, 0, 0, 0)

DeleteFailedRow(r) ==
    [path |-> r.path, decision |-> "ERROR", detail |-> "DeleteFailed",
     size_bytes |-> r.size_bytes, duration_sec |-> r.duration_sec,
     samplerate |-> r.samplerate, channels |-> r.channels,
     interval_seconds |-> r.interval_seconds,
     num_samples_used |-> r.num_samples_used, threshold |-> r.threshold,
     max_abs_seen |-> r.max_abs_seen]

\* The scan of one file is over: its locals go out of scope.
EndOfIteration ==
    /\ pc' = "loop"
    /\ res' = NoResult
    /\ io' = <<>>
    /\ ResetLocals

\* The for loop takes the next file and calls the classifier.
Iterate ==
    /\ pc = "loop"
    /\ scanned < Len(wav_files)
    /\ wav' = wav_files[scanned + 1]
    /\ scanned' = scanned + 1
    /\ pc' = "stat"
    /\ UNCHANGED <<config, silent_candidates, deleted_count, error_count,
                   bytes_candidate_savings, bytes_deleted_savings, report_rows,
                   locals, res, world, io>>

\* SILENT in AUDIT mode.
HandleSilent ==
    /\ pc = "handle"
    /\ res.decision = "SILENT"
    /\ ~ShouldDelete
    /\ silent_candidates' = silent_candidates + 1
    /\ bytes_candidate_savings' = bytes_candidate_savings + res.size_bytes
    /\ report_rows' = Append(report_rows, res)
    /\ EndOfIteration
    /\ UNCHANGED <<config, wav, scanned, deleted_count, error_count,
                   bytes_deleted_savings, world>>

\* SILENT in DELETE mode, os.remove succeeds.
HandleSilentDeleted ==
    /\ pc = "handle"
    /\ res.decision = "SILENT"
    /\ ShouldDelete
    /\ res.path \in fs
    /\ silent_candidates' = silent_candidates + 1
    /\ bytes_candidate_savings' = bytes_candidate_savings + res.size_bytes
    /\ report_rows' = Append(report_rows, res)
    /\ fs' = fs \ {res.path}
    /\ deleted_count' = deleted_count + 1
    /\ bytes_deleted_savings' = bytes_deleted_savings + res.size_bytes
    /\ EndOfIteration
    /\ UNCHANGED <<config, wav, scanned, error_count, decisions,
                   delete_failures>>

\* SILENT in DELETE mode, os.remove raises.
HandleSilentDeleteFails ==
    /\ pc = "handle"
    /\ res.decision = "SILENT"
    /\ ShouldDelete
    /\ silent_candidates' = silent_candidates + 1
    /\ bytes_candidate_savings' = bytes_candidate_savings + res.size_bytes
    /\ error_count' = error_count + 1
    /\ report_rows' = report_rows \o <<res, DeleteFailedRow(res)>>
    /\ delete_failures' = delete_failures + 1
    /\ EndOfIteration
    /\ UNCHANGED <<config, wav, scanned, deleted_count, bytes_deleted_savings,
                   fs, decisions>>

\* ERROR: counted and reported.
HandleError ==
    /\ pc = "handle"
    /\ res.decision # "SILENT"
    /\ IsError(res)
    /\ error_count' = error_count + 1
    /\ report_rows' = Append(report_rows, res)
    /\ EndOfIteration
    /\ UNCHANGED <<config, wav, scanned, silent_candidates, deleted_count,
                   bytes_candidate_savings, bytes_deleted_savings, world>>

\* KEEP: neither branch of the if is taken.
HandleKeep ==
    /\ pc = "handle"
    /\ res.decision # "SILENT"
    /\ ~IsError(res)
    /\ EndOfIteration
    /\ UNCHANGED <<config, wav, summary, world>>

\* The loop is over: the report is written and the summary printed.
Finish ==
    /\ pc = "loop"
    /\ scanned = Len(wav_files)
    /\ pc' = "done"
    /\ UNCHANGED <<config, wav, summary, locals, res, world, io>>

\* -------------------------------------------------------- specification
InitRun ==
    /\ silent_candidates = 0
    /\ deleted_count = 0
    /\ error_count = 0
    /\ bytes_candidate_savings = 0
    /\ bytes_deleted_savings = 0
    /\ report_rows = <<>>
    /\ size_bytes = 0
    /\ ch = 0
    /\ pos = 0
    /\ max_abs_seen = 0
    /\ res = NoResult
    /\ fs = Range(wav_files)
    /\ io = <<>>
    /\ decisions = [p \in Range(wav_files) |-> "NONE"]
    /\ delete_failures = 0
    /\ MODE \in Modes
    /\ MIN_SIZE_BYTES \in Gates

Init ==
    /\ scope = "run"
    /\ InitRun
    /\ INTERVAL_SECONDS \in Intervals
    /\ NUM_SAMPLES_PER_FILE \in SampleCounts
    /\ pc = "loop"
    /\ wav = 0
    /\ scanned = 0
    /\ sr = 0
    /\ total_frames = 0
    /\ starts = <<>>
    /\ frames_per_interval = 0

Next ==
    \/ Iterate
    \/ StatFails
    \/ Stat
    \/ OpenFails
    \/ MetadataFails
    \/ Open
    \/ SeekFails
    \/ ReadFails
    \/ ReadEmpty
    \/ ReadChunk
    \/ AllBelow
    \/ HandleSilent
    \/ HandleSilentDeleted
    \/ HandleSilentDeleteFails
    \/ HandleError
    \/ HandleKeep
    \/ Finish

Spec == Init /\ [][Next]_vars

\* The classifier alone: main has taken the first file and calls
\* scan_wav_for_silence on it.
ScanInit ==
    /\ scope = "file"
    /\ InitRun
    /\ INTERVAL_SECONDS \in Intervals
    /\ NUM_SAMPLES_PER_FILE \in SampleCounts
    /\ pc = "stat"
    /\ wav = wav_files[1]
    /\ scanned = 1
    /\ sr = 0
    /\ total_frames = 0
    /\ starts = <<>>
    /\ frames_per_interval = 0

ScanNext ==
    \/ StatFails
    \/ Stat
    \/ OpenFails
    \/ MetadataFails
    \/ Open
    \/ SeekFails
    \/ ReadFails
    \/ ReadEmpty
    \/ ReadChunk
    \/ AllBelow

ScanSpec == ScanInit /\ [][ScanNext]_vars

\* The planner alone, as a function of its four arguments.
PlanInit ==
    /\ scope = "plan"
    /\ wav = 0
    /\ scanned = 0
    /\ InitRun
    /\ MODE = "AUDIT"
    /\ MIN_SIZE_BYTES = 0
    /\ INTERVAL_SECONDS \in PlanIntervals
    /\ NUM_SAMPLES_PER_FILE \in PlanCounts
    /\ sr \in PlanRates
    /\ total_frames \in PlanFrames
    /\ pc = "plan"
    /\ starts = <<>>
    /\ frames_per_interval = 0

Plan ==
    /\ pc = "plan"
    /\ LET plan == compute_sample_positions(total_frames, sr, INTERVAL_SECONDS,
                                            NUM_SAMPLES_PER_FILE)
       IN  /\ starts' = plan[1]
           /\ frames_per_interval' = plan[2]
    /\ pc' = "planned"
    /\ UNCHANGED <<config, wav, summary, size_bytes, sr, ch, total_frames,
                   pos, max_abs_seen, res, world, io>>

PlanNext == Plan

PlanSpec == PlanInit /\ [][PlanNext]_vars

\* ------------------------------------------------------------- properties
Paths == Range(wav_files)

Rows == Range(report_rows)

\* What the instrumented collaborators saw for the current file.
Raised == \E e \in Range(io) : ~e.ok

DataReads == {n \in 1 .. Len(io) :
                 io[n].op = "read" /\ io[n].ok /\ ~io[n].empty}

Loud == {n \in DataReads : io[n].peak > SILENCE_THRESHOLD}

Seeks == {n \in 1 .. Len(io) : io[n].op = "seek"}

ReaderCalls == {n \in 1 .. Len(io) : io[n].op \in {"open", "meta", "seek", "read"}}

\* The classifier has returned for a file that passed the size gate, opened
\* and got a non-empty sample plan.
Probed == pc = "handle" /\ Len(starts) > 0

ZeroedMetadata(r) ==
    /\ r.size_bytes = 0
    /\ r.duration_sec = ZeroDuration
    /\ r.samplerate = 0
    /\ r.channels = 0
    /\ r.num_samples_used = 0
    /\ r.max_abs_seen = 0

\* C1: a file is gone from the file system only if MODE is DELETE and the
\* classifier's decision for it was SILENT; in AUDIT mode every file stays.
C1_DeleteOnlySilent ==
    /\ \A p \in Paths : p \notin fs => MODE = "DELETE" /\ decisions[p] = "SILENT"
    /\ MODE = "AUDIT" => fs = Paths

C1_Witness ==
    /\ \E p \in Paths : p \notin fs
    /\ \E q \in Paths : q \in fs /\ decisions[q] \in {"KEEP", "ERROR"}

\* C2 as stated: for a probed file the decision is KEEP exactly when some
\* non-empty read had a peak above the threshold, and SILENT otherwise.
C2_Original ==
    Probed =>
        /\ res.decision = "KEEP" <=> Loud # {}
        /\ res.decision # "KEEP" => res.decision = "SILENT"

\* C2 amended: for a probed file, KEEP exactly when some non-empty read had a
\* peak strictly above the threshold; when no seek or read raised, SILENT
\* otherwise, and then every non-empty read's peak is <= the threshold (a
\* peak equal to it included, empty reads not counting); when a seek or read
\* raised before any such peak, ERROR.
C2_Decision ==
    Probed =>
        /\ res.decision = "KEEP" <=> Loud # {}
        /\ (res.decision # "KEEP" /\ ~Raised) =>
               /\ res.decision = "SILENT"
               /\ \A n \in DataReads : io[n].peak <= SILENCE_THRESHOLD
        /\ (res.decision # "KEEP" /\ Raised) => res.decision = "ERROR"
        /\ res.decision = "SILENT" => ~Raised

C2_Witness ==
    /\ Probed
    /\ res.decision = "SILENT"
    /\ \E n \in DataReads : io[n].peak = SILENCE_THRESHOLD
    /\ \E n \in 1 .. Len(io) : io[n].op = "read" /\ io[n].empty

\* C3 as stated: every KEEP outcome has a probed chunk whose peak is above
\* the threshold, and max_abs_seen is that peak.
C3_Original ==
    (pc = "handle" /\ res.decision = "KEEP") =>
        \E n \in Loud : res.max_abs_seen = io[n].peak

\* C3 amended: every KEEP outcome of a file that is not below the size gate
\* has a probed chunk whose peak is above the threshold, and max_abs_seen is
\* that peak; the KEEP of a file below the gate has no probed chunk and
\* max_abs_seen 0.
C3_KeepHasLoudChunk ==
    (pc = "handle" /\ res.decision = "KEEP") =>
        IF res.size_bytes < MIN_SIZE_BYTES
        THEN DataReads = {} /\ res.max_abs_seen = 0
        ELSE \E n \in Loud : res.max_abs_seen = io[n].peak

C3_Witness ==
    /\ pc = "handle"
    /\ res.decision = "KEEP"
    /\ Loud # {}
    /\ \E n \in DataReads : io[n].peak = SILENCE_THRESHOLD

\* C4: the seeks go through the planned offsets in ascending order from the
\* first one on, and a non-empty read with a peak above the threshold is the
\* last call on the reader: the classifier has then returned KEEP with
\* max_abs_seen equal to that peak, every earlier peak being <= the threshold.
C4_EarlyExit ==
    /\ \A a, b \in Seeks : a < b => io[a].start < io[b].start
    /\ \A a \in Seeks :
           LET nth == Cardinality({b \in Seeks : b <= a})
           IN  nth <= Len(starts) /\ io[a].start = starts[nth]
    /\ \A n \in Loud :
           /\ n = Len(io)
           /\ pc = "handle"
           /\ res.decision = "KEEP"
           /\ res.max_abs_seen = io[n].peak
           /\ \A m \in DataReads : m < n => io[m].peak <= SILENCE_THRESHOLD

C4_Witness ==
    /\ Loud # {}
    /\ Cardinality(Seeks) >= 2
    /\ Cardinality(Seeks) < Len(starts)

\* C5: the classifier always returns an outcome; when any call of the
\* classification raised, the outcome is ERROR with every metadata field 0 and
\* main goes on with it; at the end of the run scanned is the number of
\* enumerated files.
C5_FailureIsLocal ==
    /\ pc = "handle" => res.decision \in {"KEEP", "SILENT", "ERROR"}
    /\ (pc = "handle" /\ Raised) =>
           /\ res.decision = "ERROR"
           /\ res.path = wav
           /\ ZeroedMetadata(res)
           /\ ENABLED HandleError
    /\ pc = "done" => scanned = Len(wav_files)

C5_Witness ==
    /\ pc = "done"
    /\ scanned = Len(wav_files)
    /\ error_count >= 1
    /\ silent_candidates >= 1
    /\ \E r \in Rows : r.detail = "Exception" /\ ZeroedMetadata(r)

\* C6: a step of main on a SILENT outcome in DELETE mode that leaves the file
\* in place (os.remove raised) adds 1 to error_count, leaves deleted_count and
\* bytes_deleted_savings alone, counts the file in silent_candidates and
\* bytes_candidate_savings, and appends exactly two rows for the path: the
\* SILENT outcome, then an ERROR row with the "delete failed" detail and the
\* outcome's metadata; the loop then goes on.
C6_DeleteFailure ==
    [][(pc = "handle" /\ res.decision = "SILENT" /\ MODE = "DELETE"
          /\ res.path \in fs')
       => LET n == Len(report_rows)
              row == report_rows'[n + 2]
          IN  /\ error_count' = error_count + 1
              /\ deleted_count' = deleted_count
              /\ bytes_deleted_savings' = bytes_deleted_savings
              /\ silent_candidates' = silent_candidates + 1
              /\ bytes_candidate_savings' = bytes_candidate_savings + res.size_bytes
              /\ Len(report_rows') = n + 2
              /\ SubSeq(report_rows', 1, n) = report_rows
              /\ report_rows'[n + 1] = res
              /\ row.path = res.path
              /\ row.decision = "ERROR"
              /\ row.detail = "DeleteFailed"
              /\ row.size_bytes = res.size_bytes
              /\ row.duration_sec = res.duration_sec
              /\ row.samplerate = res.samplerate
              /\ row.channels = res.channels
              /\ row.interval_seconds = res.interval_seconds
              /\ row.num_samples_used = res.num_samples_used
              /\ row.threshold = res.threshold
              /\ row.max_abs_seen = res.max_abs_seen
              /\ Cardinality({m \in 1 .. n + 2 :
                                 report_rows'[m].path = res.path}) = 2
              /\ pc' = "loop"
              /\ scanned' = scanned]_vars

C6_Witness ==
    /\ delete_failures >= 1
    /\ pc = "done"
    /\ \E n \in 1 .. Len(report_rows) - 1 :
           /\ report_rows[n].decision = "SILENT"
           /\ report_rows[n].size_bytes > 0
           /\ report_rows[n].max_abs_seen > 0
           /\ report_rows[n + 1].detail = "DeleteFailed"
           /\ report_rows[n + 1].path = report_rows[n].path

\* The planner's precondition in C7.
PlanValid ==
    /\ pc = "planned"
    /\ sr > 0
    /\ total_frames > 0
    /\ frames_per_interval > 0

PlanShape ==
    /\ frames_per_interval = sr * INTERVAL_SECONDS
    /\ IF total_frames <= frames_per_interval
       THEN starts = <<0>>
       ELSE /\ \A a, b \in 1 .. Len(starts) : a < b => starts[a] < starts[b]
            /\ \A a \in 1 .. Len(starts) :
                   0 <= starts[a] /\ starts[a] + frames_per_interval <= total_frames

\* C7 as stated: a short file's plan is <<0>>; otherwise the offsets are
\* strictly ascending, each chunk fits in the file, and there are at most
\* num_samples offsets.
C7_Original ==
    PlanValid =>
        /\ PlanShape
        /\ total_frames > frames_per_interval => Len(starts) <= NUM_SAMPLES_PER_FILE

\* C7 amended: as stated, with the number of offsets at most
\* max(1, num_samples) (a requested count below 1 plans one offset).
C7_Plan ==
    PlanValid =>
        /\ PlanShape
        /\ total_frames > frames_per_interval =>
               /\ Len(starts) >= 1
               /\ Len(starts) <= Max(1, NUM_SAMPLES_PER_FILE)

C7_Witness ==
    /\ PlanValid
    /\ total_frames > frames_per_interval
    /\ Len(starts) >= 3
    /\ Len(starts) < NUM_SAMPLES_PER_FILE

\* C8: when the metadata read from the opened file is degenerate (sr <= 0,
\* total_frames <= 0 or sr * INTERVAL_SECONDS <= 0) the plan is empty and the
\* outcome is ERROR with the "could not compute sample positions" detail, no
\* seek or read having been made; the file of such a row stays on disk.
C8_DegenerateIsError ==
    /\ (pc = "handle" /\ ~Raised
          /\ \E e \in Range(io) : e.op = "meta"
          /\ (sr <= 0 \/ total_frames <= 0 \/ sr * INTERVAL_SECONDS <= 0)) =>
           /\ starts = <<>>
           /\ res.decision = "ERROR"
           /\ res.detail = "NoSamplePositions"
           /\ \A n \in 1 .. Len(io) : io[n].op \notin {"seek", "read"}
    /\ \A r \in Rows : r.detail = "NoSamplePositions" =>
           /\ r.decision = "ERROR"
           /\ decisions[r.path] = "ERROR"
           /\ r.path \in fs

C8_Witness ==
    /\ pc = "done"
    /\ MODE = "DELETE"
    /\ \E r \in Rows :
           /\ r.detail = "NoSamplePositions"
           /\ r.samplerate > 0
           /\ r.interval_seconds > 0
           /\ r.duration_sec.num = 0

\* C9: a file whose size is below MIN_SIZE_BYTES gets KEEP with zeroed audio
\* metadata and no call on the audio reader; a file whose size is not below
\* the gate (any file when the gate is 0) goes on to the open; a file with
\* decision KEEP has no report row and stays on disk.
C9_SizeGate ==
    /\ (pc = "handle" /\ io[1] = StatEvent(TRUE)) =>
           IF size_bytes < MIN_SIZE_BYTES
           THEN /\ res.decision = "KEEP"
                /\ res.detail = "BelowMinSize"
                /\ res.size_bytes = size_bytes
                /\ res.duration_sec = ZeroDuration
                /\ res.samplerate = 0
                /\ res.channels = 0
                /\ res.num_samples_used = 0
                /\ res.max_abs_seen = 0
                /\ ReaderCalls = {}
           ELSE /\ res.detail # "BelowMinSize"
                /\ \E n \in ReaderCalls : io[n].op = "open"
    /\ (pc \in {"open", "scan"} \/ MIN_SIZE_BYTES = 0) => ~(size_bytes < MIN_SIZE_BYTES)
    /\ \A p \in Paths : decisions[p] = "KEEP" =>
           /\ p \in fs
           /\ \A r \in Rows : r.path # p

C9_Witness ==
    /\ pc = "handle"
    /\ res.detail = "BelowMinSize"
    /\ size_bytes < MIN_SIZE_BYTES
    /\ MODE = "DELETE"
    /\ deleted_count >= 1

\* C10: the accounting of main.  In every state: one report row per silent
\* candidate and per error; deleted_count <= silent_candidates and
\* bytes_deleted_savings <= bytes_candidate_savings; nothing deleted in AUDIT
\* mode; at the end of a DELETE run silent_candidates = deleted_count + the
\* delete failures.  In every step: no counter, byte total or row is lost,
\* and a KEEP outcome changes none of them.
C10_State ==
    /\ Len(report_rows) = silent_candidates + error_count
    /\ deleted_count <= silent_candidates
    /\ bytes_deleted_savings <= bytes_candidate_savings
    /\ MODE = "AUDIT" => deleted_count = 0 /\ bytes_deleted_savings = 0
    /\ scanned <= Len(wav_files)
    /\ (MODE = "DELETE" /\ pc = "done") =>
           silent_candidates = deleted_count + delete_failures

C10_Step ==
    /\ scanned' >= scanned
    /\ silent_candidates' >= silent_candidates
    /\ deleted_count' >= deleted_count
    /\ error_count' >= error_count
    /\ bytes_candidate_savings' >= bytes_candidate_savings
    /\ bytes_deleted_savings' >= bytes_deleted_savings
    /\ Len(report_rows') >= Len(report_rows)
    /\ SubSeq(report_rows', 1, Len(report_rows)) = report_rows
    /\ (pc = "handle" /\ res.decision = "KEEP") =>
           /\ UNCHANGED <<summary, fs>>
           /\ pc' = "loop"

\* C10: the accounting invariant holds initially and after every step, and
\* every step keeps the counters, byte totals and rows growing.
C10_Accounting == C10_State /\ [][C10_State' /\ C10_Step]_vars

C10_Witness ==
    /\ pc = "done"
    /\ MODE = "DELETE"
    /\ deleted_count >= 1
    /\ delete_failures >= 1
    /\ bytes_deleted_savings < bytes_candidate_savings

====
